---- MODULE Spec2Model ----
(***************************************************************************)
(* Model of modules/comparison.py: the text normalizer clean_xml_string,   *)
(* the parser boundary parse_xml, the tree comparator compare_xml and the  *)
(* batch loop process_comparison.                                          *)
(*                                                                         *)
(* Text is a sequence of atoms.  An atom is one punctuation character, a   *)
(* one-letter word ("l", "t", "x") or an indivisible word whose letters    *)
(* are not atoms themselves ("Msg", "MsgId", "Amt", ...), so a sequence of *)
(* atoms denotes exactly one Python string (their concatenation).          *)
(***************************************************************************)
EXTENDS Integers, Sequences, FiniteSets, TLC

VARIABLES
    raw,              \* clean_xml_string's argument: [isstr, text]
    ntok,             \* number of tokens the argument was built from
    wrapped,          \* whether the argument was wrapped in an element
    clean_pc,         \* "input", "cleaned" or "recleaned"
    once,             \* clean_xml_string(raw)
    twice,            \* clean_xml_string(clean_xml_string(raw))
    ref_xml,          \* compare_xml's first tree
    test_xml,         \* compare_xml's second tree
    nnodes,           \* number of nodes the trees were grown to
    nedits,           \* number of edits made to the trees
    cmp_pc,           \* "grow", "edit" or "compared"
    diffs,            \* compare_xml(xml_a, xml_b)
    ref_data,         \* load_json(ref_path): the reference records
    test_data,        \* load_json(test_path): the test records
    test_data_map,    \* stripped title -> test record
    pc,               \* "load", "loop", "done" or "raised"
    idx,              \* index in ref_data of the next ref_entry
    overview_results,
    detailed_results,
    final_results     \* what write_results_to_file was given

cleanVars == <<raw, ntok, wrapped, clean_pc, once, twice>>
cmpVars == <<ref_xml, test_xml, nnodes, nedits, cmp_pc, diffs>>
runVars == <<ref_data, test_data, test_data_map, pc, idx,
             overview_results, detailed_results, final_results>>
vars == <<cleanVars, cmpVars, runVars>>

-----------------------------------------------------------------------------
(* Bounds *)

MaxTokens == 3
MaxNodes == 4
MaxEdits == 2
MaxRefs == 2
MaxTests == 2

-----------------------------------------------------------------------------
(* Results of a Python call: a returned value or a raised exception *)

Ret(v) == [ok |-> TRUE, val |-> v, err |-> "none"]
Raise(e) == [ok |-> FALSE, val |-> <<>>, err |-> e]
Unset == [ok |-> FALSE, val |-> <<>>, err |-> "unset"]

\* F applied to the value of e, which is computed once
Bind(e, F(_)) == CHOOSE out \in { F(v) : v \in {e} } : TRUE

-----------------------------------------------------------------------------
(* Character classes of the atoms *)

TAB == "TAB"          \* U+0009
LtLt == "U226A"       \* U+226A, html.unescape("&ll;")

\* the UTF-8 bytes of U+226A read back one byte per character (Latin-1)
Latin1OfLtLt == <<"U00E2", "U0089", "U00AA">>

\* \w of Python's re on str: letters and digits
WordAtoms == {"l", "t", "x", "Msg", "MsgId", "Amt", "BizMsgIdr", "CreDt", "U00E2", "U00AA"}

\* [\w:\-\.\/]
ValueAtoms == WordAtoms \cup {":", "-", ".", "/"}

\* str.strip() whitespace
SpaceAtoms == {" ", TAB}

-----------------------------------------------------------------------------
(* Python str helpers over sequences of atoms *)

RECURSIVE RemoveAll(_, _)
RemoveAll(s, c) ==
    IF s = <<>> THEN <<>>
    ELSE IF Head(s) = c THEN RemoveAll(Tail(s), c)
    ELSE <<Head(s)>> \o RemoveAll(Tail(s), c)

\* s.replace('""', '"'): leftmost non-overlapping pairs
RECURSIVE ReplaceDoubledQuotes(_)
ReplaceDoubledQuotes(s) ==
    IF Len(s) < 2 THEN s
    ELSE IF s[1] = "\"" /\ s[2] = "\""
         THEN <<"\"">> \o ReplaceDoubledQuotes(SubSeq(s, 3, Len(s)))
         ELSE <<Head(s)>> \o ReplaceDoubledQuotes(Tail(s))

\* s.find(c, from): 1-based index of the first c at or after from, 0 if none
RECURSIVE Find(_, _, _)
Find(s, c, from) ==
    IF from > Len(s) THEN 0
    ELSE IF s[from] = c THEN from
    ELSE Find(s, c, from + 1)

\* s.find("?>"): 1-based index of the '?' of the first "?>", 0 if none
RECURSIVE FindDeclEnd(_, _)
FindDeclEnd(s, from) ==
    IF from + 1 > Len(s) THEN 0
    ELSE IF s[from] = "?" /\ s[from + 1] = ">" THEN from
    ELSE FindDeclEnd(s, from + 1)

RECURSIVE LStrip(_)
LStrip(s) ==
    IF s # <<>> /\ Head(s) \in SpaceAtoms THEN LStrip(Tail(s)) ELSE s

RECURSIVE RStrip(_)
RStrip(s) ==
    IF s # <<>> /\ s[Len(s)] \in SpaceAtoms THEN RStrip(SubSeq(s, 1, Len(s) - 1)) ELSE s

Strip(s) == RStrip(LStrip(s))

\* end (exclusive) of the maximal run of atoms of class cls starting at i
RECURSIVE RunEnd(_, _, _)
RunEnd(s, i, cls) ==
    IF i <= Len(s) /\ s[i] \in cls THEN RunEnd(s, i + 1, cls) ELSE i

-----------------------------------------------------------------------------
(* Step 1: raw.encode("utf-8").decode("unicode_escape") *)

\* a character that is not part of an escape: its UTF-8 bytes read as Latin-1
Utf8AsLatin1(c) == IF c = LtLt THEN Latin1OfLtLt ELSE <<c>>

RECURSIVE unicode_escape(_, _, _)
unicode_escape(s, i, acc) ==
    IF i > Len(s) THEN Ret(acc)
    ELSE IF s[i] # "\\" THEN unicode_escape(s, i + 1, acc \o Utf8AsLatin1(s[i]))
    ELSE IF i = Len(s) THEN Raise("UnicodeDecodeError")       \* "\ at end of string"
    ELSE CASE s[i + 1] = "\\" -> unicode_escape(s, i + 2, Append(acc, "\\"))
           [] s[i + 1] = "\"" -> unicode_escape(s, i + 2, Append(acc, "\""))
           [] s[i + 1] = "t"  -> unicode_escape(s, i + 2, Append(acc, TAB))
           \* no atom starts with two hex digits: "truncated \xXX escape"
           [] s[i + 1] = "x"  -> Raise("UnicodeDecodeError")
           \* any other character: the backslash is kept (invalid escape)
           [] OTHER -> unicode_escape(s, i + 1, Append(acc, "\\"))

-----------------------------------------------------------------------------
(* Step 2: html.unescape(text) *)

\* characters that end a named character reference: [^\t\n\f <&#;]
RefStop == {TAB, " ", "<", "&", ";"}

RECURSIVE RefEnd(_, _)
RefEnd(s, i) ==
    IF i <= Len(s) /\ s[i] \notin RefStop THEN RefEnd(s, i + 1) ELSE i

\* The names of html.entities.html5 that the atoms can spell are "lt", "lt;"
\* and "ll;".
RECURSIVE html_unescape(_, _, _)
html_unescape(s, i, acc) ==
    IF i > Len(s) THEN acc
    ELSE IF s[i] # "&" THEN html_unescape(s, i + 1, Append(acc, s[i]))
    ELSE LET e == RefEnd(s, i + 1)                      \* the name is s[i+1 .. e-1]
             semi == e <= Len(s) /\ s[e] = ";"          \* optional ';'
             stop == IF semi THEN e + 1 ELSE e
             name == SubSeq(s, i + 1, e - 1)
         IN  IF e = i + 1 THEN html_unescape(s, i + 1, Append(acc, "&"))
             ELSE IF semi /\ name = <<"l", "t">>
                  THEN html_unescape(s, stop, Append(acc, "<"))
             ELSE IF semi /\ name = <<"l", "l">>
                  THEN html_unescape(s, stop, Append(acc, LtLt))
             ELSE IF Len(name) >= 2 /\ name[1] = "l" /\ name[2] = "t"
                  \* longest prefix that is a name: "lt", the rest is kept
                  THEN html_unescape(s, stop,
                           acc \o <<"<">> \o SubSeq(s, i + 3, stop - 1))
             ELSE html_unescape(s, stop, acc \o SubSeq(s, i, stop - 1))

-----------------------------------------------------------------------------
(* Step 4: re.sub(r'(\w+)=([\w:\-\.\/]+)', r'\1="\2"', text) *)

RECURSIVE quote_attributes(_, _, _)
quote_attributes(s, i, acc) ==
    IF i > Len(s) THEN acc
    ELSE LET w == RunEnd(s, i, WordAtoms)              \* \w+ is s[i .. w-1]
             v == RunEnd(s, w + 1, ValueAtoms)         \* value is s[w+1 .. v-1]
         IN  IF w > i /\ w <= Len(s) /\ s[w] = "=" /\ v > w + 1
             THEN quote_attributes(s, v,
                      acc \o SubSeq(s, i, w) \o <<"\"">> \o SubSeq(s, w + 1, v - 1) \o <<"\"">>)
             ELSE IF w > i
                  \* no match starts inside this run of word characters
                  THEN quote_attributes(s, w, acc \o SubSeq(s, i, w - 1))
                  ELSE quote_attributes(s, i + 1, Append(acc, s[i]))

-----------------------------------------------------------------------------
(* Steps 5 and 6 and the whole of clean_xml_string *)

\* the declaration cut two characters short of the end of its "?>"
isolate_declaration_without_end(text) ==
    LET declaration_end == FindDeclEnd(text, 1)
        xml_declaration == SubSeq(text, 1, declaration_end - 1)
        content_start == Find(text, "<", declaration_end + 2)
    IN  IF declaration_end # 0 /\ content_start # 0
        THEN xml_declaration \o SubSeq(text, content_start, Len(text))
        ELSE text

isolate_declaration(text) ==
    LET declaration_end == FindDeclEnd(text, 1)
        xml_declaration == SubSeq(text, 1, declaration_end + 1)
        content_start == Find(text, "<", declaration_end + 2)
    IN  IF declaration_end # 0 /\ content_start # 0
        THEN xml_declaration \o SubSeq(text, content_start, Len(text))
        ELSE text

\* the text before the first '<' is kept
truncate_preamble_kept(text) == text

truncate_preamble(text) ==
    LET start == Find(text, "<", 1)
    IN  IF start # 0 THEN SubSeq(text, start, Len(text)) ELSE text

remove_export_artifacts(text) ==
    RemoveAll(ReplaceDoubledQuotes(RemoveAll(text, ",")), "\"")

clean_xml_string(r) ==
    IF ~r.isstr THEN Ret(<<>>)
    ELSE LET step1 == unicode_escape(r.text, 1, <<>>)
         IN  IF ~step1.ok THEN step1
             ELSE LET step2 == html_unescape(step1.val, 1, <<>>)
                      step3 == remove_export_artifacts(step2)
                      step4 == quote_attributes(step3, 1, <<>>)
                      step5 == isolate_declaration(Strip(step4))
                  IN  Ret(truncate_preamble(step5))

-----------------------------------------------------------------------------
(* parse_xml: etree.fromstring on the UTF-8 bytes of the text, any failure *)
(* re-raised as ValueError.  The parser is XML 1.0 on the atoms: elements  *)
(* with attributes, character data, the reference &lt;, processing         *)
(* instructions; no atom spells a comment, CDATA, DOCTYPE or "xml".        *)
(* A node is [kind, tag, text, attrib, children]: tag is the qualified tag *)
(* "{uri}local" as atoms, text is elem.text (the text before the first     *)
(* child node), attrib a set of <<name, value>> pairs, children list(elem).*)

NameAtoms == {"l", "t", "x", "Msg", "MsgId", "Amt", "BizMsgIdr", "CreDt"}

\* the characters a name goes on with after its first
NameChars == NameAtoms \cup {"-", "."}

Element(tag, text, attrib, children) ==
    [kind |-> "element", tag |-> tag, text |-> text, attrib |-> attrib,
     children |-> children]

\* a processing instruction or comment: its .tag is a function, not a str
NonElement(kind) ==
    [kind |-> kind, tag |-> <<>>, text |-> <<>>, attrib |-> {}, children |-> <<>>]

PFail == [ok |-> FALSE]

AtomAt(s, i) == IF i >= 1 /\ i <= Len(s) THEN s[i] ELSE "EOF"

\* the index after the name that starts at i; i when no name starts there
NameEnd(s, i) == IF AtomAt(s, i) \in NameAtoms THEN RunEnd(s, i + 1, NameChars) ELSE i

\* '<?' target (S content)? '?>' at i: the index after it, 0 if malformed
ParsePI(s, i) ==
    LET n == NameEnd(s, i + 2)
        d == FindDeclEnd(s, n + 1)
    IN  IF n = i + 2 THEN 0
        ELSE IF AtomAt(s, n) = "?" /\ AtomAt(s, n + 1) = ">" THEN n + 2
        ELSE IF AtomAt(s, n) \in SpaceAtoms /\ d # 0 THEN d + 2
        ELSE 0

\* Misc*: white space and processing instructions outside the root element;
\* the index of the first atom that is neither, 0 if a PI is malformed
RECURSIVE ParseMisc(_, _)
ParseMisc(s, i) ==
    IF AtomAt(s, i) \in SpaceAtoms THEN ParseMisc(s, i + 1)
    ELSE IF AtomAt(s, i) = "<" /\ AtomAt(s, i + 1) = "?"
         THEN Bind(ParsePI(s, i), LAMBDA n : IF n = 0 THEN 0 ELSE ParseMisc(s, n))
    ELSE i

\* an attribute value from i to the closing quote: [ok, val, next]
RECURSIVE ParseAttValue(_, _, _)
ParseAttValue(s, i, acc) ==
    LET c == AtomAt(s, i)
    IN  CASE c = "\"" -> [ok |-> TRUE, val |-> acc, next |-> i + 1]
          [] c \in {"EOF", "<"} -> PFail
          [] c = "&" ->
               IF AtomAt(s, i + 1) = "l" /\ AtomAt(s, i + 2) = "t" /\ AtomAt(s, i + 3) = ";"
               THEN ParseAttValue(s, i + 4, Append(acc, "<"))
               ELSE PFail
          [] c = TAB -> ParseAttValue(s, i + 1, Append(acc, " "))
          [] OTHER -> ParseAttValue(s, i + 1, Append(acc, c))

\* the attributes and the end of a start tag, from i (after the name or an
\* attribute): [ok, attrib, empty, next]
RECURSIVE ParseAttrs(_, _, _)
ParseAttrs(s, i, acc) ==
    LET j == RunEnd(s, i, SpaceAtoms)
        n == NameEnd(s, j)
        e == RunEnd(s, n, SpaceAtoms)
        q == RunEnd(s, e + 1, SpaceAtoms)
        name == SubSeq(s, j, n - 1)
    IN  IF AtomAt(s, j) = ">"
        THEN [ok |-> TRUE, attrib |-> acc, empty |-> FALSE, next |-> j + 1]
        ELSE IF AtomAt(s, j) = "/" /\ AtomAt(s, j + 1) = ">"
        THEN [ok |-> TRUE, attrib |-> acc, empty |-> TRUE, next |-> j + 2]
        ELSE IF /\ j > i /\ n > j
                /\ AtomAt(s, e) = "=" /\ AtomAt(s, q) = "\""
                /\ \A a \in acc : a[1] # name
        THEN Bind(ParseAttValue(s, q + 1, <<>>), LAMBDA v :
                 IF ~v.ok THEN PFail
                 ELSE ParseAttrs(s, v.next, acc \cup {<<name, v.val>>}))
        ELSE PFail

RECURSIVE ParseElement(_, _), ParseContent(_, _, _, _, _)

\* the content of element name from i up to and including its end tag:
\* [ok, text, children, next]
ParseContent(s, i, name, text, children) ==
    LET c == AtomAt(s, i)
        n == NameEnd(s, i + 2)
        g == RunEnd(s, n, SpaceAtoms)
        keep(t) == IF children = <<>> THEN text \o t ELSE text   \* else a tail
    IN  CASE c = "EOF" -> PFail
          [] c = "<" /\ AtomAt(s, i + 1) = "/" ->
               IF SubSeq(s, i + 2, n - 1) = name /\ AtomAt(s, g) = ">"
               THEN [ok |-> TRUE, text |-> text, children |-> children, next |-> g + 1]
               ELSE PFail
          [] c = "<" /\ AtomAt(s, i + 1) = "?" ->
               Bind(ParsePI(s, i), LAMBDA pi :
                   IF pi = 0 THEN PFail
                   ELSE ParseContent(s, pi, name, text,
                                     Append(children, NonElement("pi"))))
          [] c = "<" /\ AtomAt(s, i + 1) \in NameAtoms ->
               Bind(ParseElement(s, i), LAMBDA el :
                   IF ~el.ok THEN PFail
                   ELSE ParseContent(s, el.next, name, text, Append(children, el.node)))
          [] c = "<" /\ AtomAt(s, i + 1) \notin (NameAtoms \cup {"/", "?"}) -> PFail
          [] c = "&" ->
               IF AtomAt(s, i + 1) = "l" /\ AtomAt(s, i + 2) = "t" /\ AtomAt(s, i + 3) = ";"
               THEN ParseContent(s, i + 4, name, keep(<<"<">>), children)
               ELSE PFail
          [] OTHER -> ParseContent(s, i + 1, name, keep(<<c>>), children)

\* the element whose start tag begins at i: [ok, node, next]
ParseElement(s, i) ==
    LET n == NameEnd(s, i + 1)
        name == SubSeq(s, i + 1, n - 1)
    IN  IF n = i + 1 THEN PFail
        ELSE Bind(ParseAttrs(s, n, {}), LAMBDA a :
            IF ~a.ok THEN PFail
            ELSE IF a.empty
            THEN [ok |-> TRUE, node |-> Element(name, <<>>, a.attrib, <<>>),
                  next |-> a.next]
            ELSE Bind(ParseContent(s, a.next, name, <<>>, <<>>), LAMBDA c :
                IF ~c.ok THEN PFail
                ELSE [ok |-> TRUE, node |-> Element(name, c.text, a.attrib, c.children),
                      next |-> c.next]))

parse_xml(xml_str) ==
    Bind(ParseMisc(xml_str, 1), LAMBDA i :
        IF i = 0 \/ AtomAt(xml_str, i) # "<" \/ AtomAt(xml_str, i + 1) \notin NameAtoms
        THEN Raise("ValueError")
        ELSE Bind(ParseElement(xml_str, i), LAMBDA el :
            IF ~el.ok THEN Raise("ValueError")
            ELSE IF ParseMisc(xml_str, el.next) # Len(xml_str) + 1
            THEN Raise("ValueError")
            ELSE Ret(el.node)))

-----------------------------------------------------------------------------
(* compare_xml.  A diff entry is the message the code formats: its kind,   *)
(* the path it names and the two values.  Each entry, and the list of the  *)
(* node pairs recurse was called on, also records the position of the      *)
(* node pair (the child indices from the root, 1-based): auxiliary         *)
(* information the claims are stated with, absent from the message.        *)

IGNORED_TAGS == { <<"BizMsgIdr">>, <<"CreDt">>, <<"MsgId">> }

\* tag.split('}')[-1]: what follows the last '}'
RECURSIVE strip_namespace(_)
strip_namespace(tag) ==
    LET k == Find(tag, "}", 1)
    IN  IF k = 0 THEN tag ELSE strip_namespace(SubSeq(tag, k + 1, Len(tag)))

DiffEntry(kind, path, a, b, pos) ==
    [kind |-> kind, at |-> path, a |-> a, b |-> b, pos |-> pos]

Acc(d, v) == [diffs |-> d, visited |-> v]

\* the comparison the code makes of the two tags
tags_differ(elem_a, elem_b) == elem_a.tag # elem_b.tag

\* the path a tag mismatch is reported at
tag_mismatch_path(path, current_path) == path

\* an exception raised while acc had been collected
RaiseWith(e, acc) == [ok |-> FALSE, val |-> acc, err |-> e]

RECURSIVE recurse(_, _, _, _, _), compare_contents(_, _, _, _, _),
          recurse_children(_, _, _, _, _, _)

\* "if elem_a.tag != elem_b.tag": one entry, then return
tag_mismatch_no_return(elem_a, elem_b, path, pos, acc) ==
    LET tag_a_local == strip_namespace(elem_a.tag)
        tag_b_local == strip_namespace(elem_b.tag)
        current_path == path \o <<"/">> \o tag_a_local
    IN  compare_contents(elem_a, elem_b, current_path, pos,
            Acc(Append(acc.diffs,
                       DiffEntry("Tag mismatch", tag_mismatch_path(path, current_path),
                                 tag_a_local, tag_b_local, pos)),
                acc.visited))

tag_mismatch(elem_a, elem_b, path, pos, acc) ==
    LET tag_a_local == strip_namespace(elem_a.tag)
        tag_b_local == strip_namespace(elem_b.tag)
        current_path == path \o <<"/">> \o tag_a_local
    IN  Ret(Acc(Append(acc.diffs,
                       DiffEntry("Tag mismatch", tag_mismatch_path(path, current_path),
                                 tag_a_local, tag_b_local, pos)),
                acc.visited))

\* recurse(elem_a, elem_b, path): Ret(acc) with the entries appended, or the
\* exception .split raises on the tag of a comment or processing instruction
recurse(elem_a, elem_b, path, pos, acc) ==
    LET seen == Acc(acc.diffs, Append(acc.visited, pos))
        tag_a_local == strip_namespace(elem_a.tag)
        current_path == path \o <<"/">> \o tag_a_local
    IN  IF elem_a.kind # "element" \/ elem_b.kind # "element"
        THEN RaiseWith("AttributeError", seen)
        ELSE IF tags_differ(elem_a, elem_b)
        THEN tag_mismatch(elem_a, elem_b, path, pos, seen)
        ELSE IF tag_a_local \in IGNORED_TAGS THEN Ret(seen)
        ELSE compare_contents(elem_a, elem_b, current_path, pos, seen)

\* the text, the attributes, the number of children, then the children
compare_contents(elem_a, elem_b, current_path, pos, acc) ==
    LET text_a == Strip(elem_a.text)
        text_b == Strip(elem_b.text)
        children_a == elem_a.children
        children_b == elem_b.children
        d0 == acc.diffs
        d1 == IF text_a # text_b
              THEN Append(d0, DiffEntry("Value mismatch", current_path, text_a, text_b, pos))
              ELSE d0
        d2 == IF elem_a.attrib # elem_b.attrib
              THEN Append(d1, DiffEntry("Attribute mismatch", current_path,
                                        elem_a.attrib, elem_b.attrib, pos))
              ELSE d1
        d3 == IF Len(children_a) # Len(children_b)
              THEN Append(d2, DiffEntry("Child count mismatch", current_path,
                                        Len(children_a), Len(children_b), pos))
              ELSE d2
    IN  recurse_children(children_a, children_b, 1, current_path, pos,
                         Acc(d3, acc.visited))

\* no child is compared when the two lists differ in length
RECURSIVE recurse_children_of_equal_counts(_, _, _, _, _, _)
recurse_children_of_equal_counts(children_a, children_b, k, current_path, pos, acc) ==
    IF Len(children_a) # Len(children_b) \/ k > Len(children_a) THEN Ret(acc)
    ELSE Bind(recurse(children_a[k], children_b[k], current_path, Append(pos, k), acc),
              LAMBDA r :
                 IF ~r.ok THEN r
                 ELSE recurse_children_of_equal_counts(children_a, children_b, k + 1,
                                                       current_path, pos, r.val))

\* for a_child, b_child in zip(children_a, children_b): recurse(...)
recurse_children(children_a, children_b, k, current_path, pos, acc) ==
    IF k > Len(children_a) \/ k > Len(children_b) THEN Ret(acc)
    ELSE Bind(recurse(children_a[k], children_b[k], current_path, Append(pos, k), acc),
              LAMBDA r :
                 IF ~r.ok THEN r
                 ELSE recurse_children(children_a, children_b, k + 1, current_path, pos,
                                       r.val))

\* Ret or RaiseWith of [diffs, visited]
compare_xml(xml_a, xml_b) == recurse(xml_a, xml_b, <<>>, <<>>, Acc(<<>>, <<>>))

-----------------------------------------------------------------------------
(* Inputs of the normalizer: up to MaxTokens tokens, optionally wrapped in *)
(* an element and preceded by further tokens.                              *)

Tokens ==
    { <<"\\">>, <<"t">>, <<"x">>, <<"&">>, <<"l", "t", ";">>, <<"l", "l", ";">>,
      <<"\"">>, <<"?", ">">>, <<"=">>, <<",">>, <<" ">> }

OpenL == <<"<", "l", ">">>
CloseL == <<"<", "/", "l", ">">>

Str(s) == [isstr |-> TRUE, text |-> s]
NotAString == [isstr |-> FALSE, text |-> <<>>]

InitClean ==
    /\ raw = Str(<<>>)
    /\ ntok = 0
    /\ wrapped = FALSE
    /\ clean_pc = "input"
    /\ once = Unset
    /\ twice = Unset

CleanAppend(tok) ==
    /\ clean_pc = "input" /\ raw.isstr /\ ~wrapped /\ ntok < MaxTokens
    /\ raw' = Str(raw.text \o tok)
    /\ ntok' = ntok + 1
    /\ UNCHANGED <<wrapped, clean_pc, once, twice, cmpVars, runVars>>

CleanWrap ==
    /\ clean_pc = "input" /\ raw.isstr /\ ~wrapped
    /\ raw' = Str(OpenL \o raw.text \o CloseL)
    /\ wrapped' = TRUE
    /\ UNCHANGED <<ntok, clean_pc, once, twice, cmpVars, runVars>>

CleanPrepend(tok) ==
    /\ clean_pc = "input" /\ raw.isstr /\ wrapped /\ ntok < MaxTokens
    /\ raw' = Str(tok \o raw.text)
    /\ ntok' = ntok + 1
    /\ UNCHANGED <<wrapped, clean_pc, once, twice, cmpVars, runVars>>

CleanNonString ==
    /\ clean_pc = "input" /\ raw = Str(<<>>)
    /\ raw' = NotAString
    /\ UNCHANGED <<ntok, wrapped, clean_pc, once, twice, cmpVars, runVars>>

CleanOnce ==
    /\ clean_pc = "input"
    /\ once' = clean_xml_string(raw)
    /\ clean_pc' = "cleaned"
    /\ UNCHANGED <<raw, ntok, wrapped, twice, cmpVars, runVars>>

CleanAgain ==
    /\ clean_pc = "cleaned" /\ once.ok
    /\ twice' = clean_xml_string(Str(once.val))
    /\ clean_pc' = "recleaned"
    /\ UNCHANGED <<raw, ntok, wrapped, once, cmpVars, runVars>>

NextClean ==
    \/ \E tok \in Tokens : CleanAppend(tok)
    \/ CleanWrap
    \/ \E tok \in Tokens : CleanPrepend(tok)
    \/ CleanNonString
    \/ CleanOnce
    \/ CleanAgain

-----------------------------------------------------------------------------
(* Inputs of the comparator: two equal trees grown node by node under the  *)
(* root Msg, then up to MaxEdits edits, then the comparison.               *)

RECURSIVE NodeAt(_, _)
NodeAt(tree, pos) ==
    IF pos = <<>> THEN tree ELSE NodeAt(tree.children[Head(pos)], Tail(pos))

RECURSIVE ReplaceAt(_, _, _)
ReplaceAt(tree, pos, node) ==
    IF pos = <<>> THEN node
    ELSE [tree EXCEPT !.children =
             [@ EXCEPT ![Head(pos)] = ReplaceAt(@, Tail(pos), node)]]

RECURSIVE Positions(_)
Positions(tree) ==
    {<<>>} \cup UNION { { <<k>> \o p : p \in Positions(tree.children[k]) } :
                           k \in 1..Len(tree.children) }

HasPos(tree, pos) == pos \in Positions(tree)

IsPrefix(p, q) == Len(p) <= Len(q) /\ SubSeq(q, 1, Len(p)) = p

GrowLocals == { <<"Amt">> }
NextLocal(l) == CASE l = <<"Amt">> -> <<"MsgId">>
                  [] l = <<"MsgId">> -> <<"CreDt">>
                  [] OTHER -> <<"Amt">>

Qualified(uri, local) == <<"{", uri, "}">> \o local

Leaf(local) == Element(local, <<"10">>, {}, <<>>)

\* the edits of one element
Edited(node, kind) ==
    CASE kind = "namespace" -> [node EXCEPT !.tag = Qualified("urn:b", strip_namespace(@))]
      [] kind = "local"     -> [node EXCEPT !.tag =
                                   SubSeq(@, 1, Len(@) - 1) \o NextLocal(strip_namespace(@))]
      [] kind = "text"      -> [node EXCEPT !.text = <<"20">>]
      [] kind = "padding"   -> [node EXCEPT !.text = <<" ">> \o @ \o <<TAB>>]
      [] kind = "attrib"    -> [node EXCEPT !.attrib = @ \cup {<< <<"Ccy">>, <<"EUR">> >>}]
      [] kind = "drop"      -> [node EXCEPT !.children = SubSeq(@, 1, Len(@) - 1)]
      [] kind = "comment"   -> NonElement("comment")

EditKinds == {"namespace", "local", "text", "padding", "attrib", "drop", "comment"}
BothKinds == {"namespace", "comment", "local"}

CanEdit(tree, pos, kind) ==
    /\ HasPos(tree, pos)
    /\ NodeAt(tree, pos).kind = "element"
    /\ kind = "drop" => NodeAt(tree, pos).children # <<>>
    /\ kind = "comment" => pos # <<>>
    /\ kind = "namespace" => Find(NodeAt(tree, pos).tag, "}", 1) = 0
    /\ kind = "padding" => NodeAt(tree, pos).text = <<"10">>

InitCmp ==
    /\ ref_xml = Leaf(<<"Msg">>)
    /\ test_xml = Leaf(<<"Msg">>)
    /\ nnodes = 1
    /\ nedits = 0
    /\ cmp_pc = "grow"
    /\ diffs = Unset

\* a new last child under the node at pos, in both trees
Grow(pos, local) ==
    /\ cmp_pc = "grow" /\ nnodes < MaxNodes
    /\ HasPos(ref_xml, pos)
    /\ LET grown(tree) ==
               ReplaceAt(tree, pos,
                   [NodeAt(tree, pos) EXCEPT !.children = Append(@, Leaf(local))])
       IN  ref_xml' = grown(ref_xml) /\ test_xml' = grown(test_xml)
    /\ nnodes' = nnodes + 1
    /\ UNCHANGED <<nedits, cmp_pc, diffs, cleanVars, runVars>>

EditB(pos, kind) ==
    /\ cmp_pc \in {"grow", "edit"} /\ nedits < MaxEdits
    /\ CanEdit(test_xml, pos, kind)
    /\ test_xml' = ReplaceAt(test_xml, pos, Edited(NodeAt(test_xml, pos), kind))
    /\ nedits' = nedits + 1
    /\ cmp_pc' = "edit"
    /\ UNCHANGED <<ref_xml, nnodes, diffs, cleanVars, runVars>>

EditBoth(pos, kind) ==
    /\ cmp_pc \in {"grow", "edit"} /\ nedits < MaxEdits
    /\ kind \in BothKinds
    /\ CanEdit(ref_xml, pos, kind) /\ CanEdit(test_xml, pos, kind)
    /\ ref_xml' = ReplaceAt(ref_xml, pos, Edited(NodeAt(ref_xml, pos), kind))
    /\ test_xml' = ReplaceAt(test_xml, pos, Edited(NodeAt(test_xml, pos), kind))
    /\ nedits' = nedits + 1
    /\ cmp_pc' = "edit"
    /\ UNCHANGED <<nnodes, diffs, cleanVars, runVars>>

Compare ==
    /\ cmp_pc \in {"grow", "edit"}
    /\ diffs' = compare_xml(ref_xml, test_xml)
    /\ cmp_pc' = "compared"
    /\ UNCHANGED <<ref_xml, test_xml, nnodes, nedits, cleanVars, runVars>>

NextCmp ==
    \/ \E pos \in Positions(ref_xml), local \in GrowLocals : Grow(pos, local)
    \/ \E pos \in Positions(test_xml), kind \in EditKinds : EditB(pos, kind)
    \/ \E pos \in Positions(test_xml), kind \in BothKinds : EditBoth(pos, kind)
    \/ Compare

-----------------------------------------------------------------------------
(* process_comparison.  A line of the report is [kind, id, info]: the kind *)
(* of text the code formats, the ref_id it is formatted with, and what     *)
(* else it shows.  The empty string is Line("blank", <<>>, <<>>).          *)

Line(kind, id, info) == [kind |-> kind, id |-> id, info |-> info]
Blank == Line("blank", <<>>, <<>>)

\* {str(t.get("title", "")).strip(): t for t in test_data}: later records win
RECURSIVE build_test_data_map(_, _)
build_test_data_map(records, map) ==
    IF records = <<>> THEN map
    ELSE LET t == Head(records)
             key == Strip(t.title)
         IN  build_test_data_map(Tail(records),
                 [k \in DOMAIN map \cup {key} |-> IF k = key THEN t ELSE map[k]])

\* the test of the diff list turned round
outcome_kind_inverted(d) == IF d # <<>> THEN "pass" ELSE "fail"

\* overview line of a pair compare_xml returned d for
outcome_kind(d) == IF d = <<>> THEN "pass" ELSE "fail"

\* the try block: [raised, overview, detailed]
report_diffs(ref_id, d) ==
    IF outcome_kind(d) = "pass"
    THEN [raised |-> "none",
          overview |-> <<Line("pass", ref_id, <<>>)>>,
          detailed |-> <<Line("match ok", ref_id, <<>>)>>]
    ELSE [raised |-> "none",
          overview |-> <<Line("fail", ref_id, <<>>)>>,
          detailed |-> <<Line("differences", ref_id, <<>>)>>
                       \o [k \in 1..Len(d) |-> Line("diff", <<>>, d[k])]
                       \o <<Blank>>]

xml_error(ref_id) ==
    [raised |-> "none",
     overview |-> <<Line("fail (XML Error)", ref_id, <<>>)>>,
     detailed |-> <<Line("xml error", ref_id, <<>>)>>]

compare_pair(ref_id, ref_xml_str, test_xml_str) ==
    Bind(parse_xml(ref_xml_str), LAMBDA rx :
        IF ~rx.ok THEN xml_error(ref_id)                 \* except ValueError
        ELSE Bind(parse_xml(test_xml_str), LAMBDA tx :
            IF ~tx.ok THEN xml_error(ref_id)             \* except ValueError
            ELSE Bind(compare_xml(rx.val, tx.val), LAMBDA res :
                IF ~res.ok                               \* not a ValueError: propagates
                THEN [raised |-> res.err, overview |-> <<>>, detailed |-> <<>>]
                ELSE report_diffs(ref_id, res.val.diffs))))

\* one iteration of "for ref_entry in ref_data": [raised, overview, detailed],
\* the lines it appends or the exception that leaves the loop
iteration(ref_entry, map) ==
    LET ref_id == Strip(ref_entry.id)
        matched == ref_id \in DOMAIN map
        test_entry == map[ref_id]
        test_title == Strip(test_entry.title)
        header == Line("header", ref_id, test_title)
    IN  IF ~matched
        THEN [raised |-> "none",
              overview |-> <<Line("fail (No Match)", ref_id, <<>>)>>,
              detailed |-> <<Line("warning", ref_id, <<>>)>>]
        ELSE Bind(clean_xml_string(ref_entry.raw), LAMBDA ref_xml_str :
            IF ~ref_xml_str.ok
            THEN [raised |-> ref_xml_str.err, overview |-> <<>>, detailed |-> <<>>]
            ELSE Bind(clean_xml_string(test_entry.content), LAMBDA test_xml_str :
                IF ~test_xml_str.ok
                THEN [raised |-> test_xml_str.err, overview |-> <<>>, detailed |-> <<>>]
                ELSE Bind(compare_pair(ref_id, ref_xml_str.val, test_xml_str.val),
                          LAMBDA body :
                              [raised |-> body.raised,
                               overview |-> body.overview,
                               detailed |-> <<header>> \o body.detailed])))

\* the two parts of the report in the other order
assemble_details_first(overview, detailed) ==
    <<Line("start", <<>>, <<>>), Line("overview title", <<>>, <<>>)>>
        \o detailed \o <<Blank>> \o overview

assemble(overview, detailed) ==
    <<Line("start", <<>>, <<>>), Line("overview title", <<>>, <<>>)>>
        \o overview \o <<Blank>> \o detailed

-----------------------------------------------------------------------------
(* Inputs of the batch: up to MaxRefs reference records and MaxTests test  *)
(* records, then the loop, one iteration a step, then the report.          *)

MsgDoc(text) ==
    <<"<", "Msg", ">", "<", "Amt", ">">> \o text
        \o <<"<", "/", "Amt", ">", "<", "/", "Msg", ">">>

RefRaws ==
    { Str(MsgDoc(<<"t">>)),                                  \* well-formed
      Str(<<"<", "Msg", ">">>),                              \* not well-formed
      Str(MsgDoc(<<"t">>) \o <<"\\">>),                      \* ends in a backslash
      Str(<<"<", "Msg", ">", "<", "?", "t", "?", ">", "<", "/", "Msg", ">">>) }  \* a PI child

TestRaws ==
    { Str(<<"x", " ">> \o MsgDoc(<<"t", ",">>)),             \* MsgDoc("t") after repair
      Str(MsgDoc(<<"x">>)),                                  \* another value
      NotAString }

RefIds == { <<"7">>, <<" ", "8">> }
TestTitles == { <<"7">>, <<"8", " ">> }

RefEntry(id, r) == [id |-> id, raw |-> r]
TestEntry(title, content) == [title |-> title, content |-> content]

EmptyMap == [k \in {} |-> TestEntry(<<>>, NotAString)]

InitRun ==
    /\ ref_data = <<>>
    /\ test_data = <<>>
    /\ test_data_map = EmptyMap
    /\ pc = "load"
    /\ idx = 1
    /\ overview_results = <<>>
    /\ detailed_results = <<>>
    /\ final_results = <<>>

AddRef(id, r) ==
    /\ pc = "load" /\ Len(ref_data) < MaxRefs
    /\ ref_data' = Append(ref_data, RefEntry(id, r))
    /\ UNCHANGED <<test_data, test_data_map, pc, idx, overview_results,
                   detailed_results, final_results, cleanVars, cmpVars>>

AddTest(title, content) ==
    /\ pc = "load" /\ Len(test_data) < MaxTests
    /\ test_data' = Append(test_data, TestEntry(title, content))
    /\ UNCHANGED <<ref_data, test_data_map, pc, idx, overview_results,
                   detailed_results, final_results, cleanVars, cmpVars>>

\* the lines of process_comparison before the loop
Start ==
    /\ pc = "load"
    /\ test_data_map' = build_test_data_map(test_data, EmptyMap)
    /\ pc' = "loop"
    /\ UNCHANGED <<ref_data, test_data, idx, overview_results,
                   detailed_results, final_results, cleanVars, cmpVars>>

\* one iteration of the loop
ProcessRecord ==
    /\ pc = "loop" /\ idx <= Len(ref_data)
    /\ \E it \in {iteration(ref_data[idx], test_data_map)} :
           IF it.raised # "none"
           THEN /\ pc' = "raised"
                /\ UNCHANGED <<idx, overview_results, detailed_results>>
           ELSE /\ pc' = pc
                /\ idx' = idx + 1
                /\ overview_results' = overview_results \o it.overview
                /\ detailed_results' = detailed_results \o it.detailed
    /\ UNCHANGED <<ref_data, test_data, test_data_map, final_results,
                   cleanVars, cmpVars>>

\* the end of process_comparison: final_results and write_results_to_file
WriteReport ==
    /\ pc = "loop" /\ idx > Len(ref_data)
    /\ final_results' = assemble(overview_results, detailed_results)
    /\ pc' = "done"
    /\ UNCHANGED <<ref_data, test_data, test_data_map, idx, overview_results,
                   detailed_results, cleanVars, cmpVars>>

NextRun ==
    \/ \E id \in RefIds, r \in RefRaws : AddRef(id, r)
    \/ \E title \in TestTitles, content \in TestRaws : AddTest(title, content)
    \/ Start
    \/ ProcessRecord
    \/ WriteReport

-----------------------------------------------------------------------------
(* Specifications *)

Init == InitClean /\ InitCmp /\ InitRun

SpecClean == Init /\ [][NextClean]_vars

SpecCmp == Init /\ [][NextCmp]_vars

Spec == Init /\ [][NextRun]_vars

\* ---------------------------------------------------------------------------
\* Properties of compare_xml, read off the compared state of SpecCmp
\* ---------------------------------------------------------------------------

Entries == diffs.val.diffs

VisitedPos == { diffs.val.visited[i] : i \in DOMAIN diffs.val.visited }

EntriesAt(p) == { i \in DOMAIN Entries : Entries[i].pos = p }

EntriesBelow(p) == { i \in DOMAIN Entries : IsPrefix(p, Entries[i].pos) }

CommonPos == Positions(ref_xml) \cap Positions(test_xml)

ElementPair(p) ==
    /\ p \in CommonPos
    /\ NodeAt(ref_xml, p).kind = "element"
    /\ NodeAt(test_xml, p).kind = "element"

LocalOf(tree, p) == strip_namespace(NodeAt(tree, p).tag)

NextSibling(p) == SubSeq(p, 1, Len(p) - 1) \o <<p[Len(p)] + 1>>

RECURSIVE Identical(_, _)
Identical(a, b) ==
    /\ a.kind = b.kind
    /\ a.kind = "element" =>
          /\ a.tag = b.tag
          /\ a.attrib = b.attrib
          /\ Strip(a.text) = Strip(b.text)
          /\ Len(a.children) = Len(b.children)
          /\ \A k \in 1..Len(a.children) : Identical(a.children[k], b.children[k])

\* C4: a pair of nodes at the same position whose local name is the same
\* ignored tag (BizMsgIdr, CreDt, MsgId) contributes no entry, neither for
\* itself nor for anything in its subtree.
C4_IgnoredPairContributesNothing ==
    cmp_pc = "compared" =>
        \A p \in CommonPos :
            ( /\ ElementPair(p)
              /\ LocalOf(ref_xml, p) = LocalOf(test_xml, p)
              /\ LocalOf(ref_xml, p) \in IGNORED_TAGS )
            => EntriesBelow(p) = {}

\* C5: for two structurally identical trees (same tags, attributes, trimmed
\* text and number of children at every position) compare_xml returns the
\* empty list.
C5_IdenticalTreesGiveNoDiffs ==
    (cmp_pc = "compared" /\ Identical(ref_xml, test_xml))
        => (diffs.ok /\ Entries = <<>>)

\* C9: tags are compared by local name: a compared pair of elements gets a
\* "Tag mismatch" entry exactly when the local names of the two tags differ.
C9_TagMismatchIffLocalNamesDiffer ==
    cmp_pc = "compared" =>
        \A p \in VisitedPos :
            ElementPair(p) =>
                ( (\E i \in EntriesAt(p) : Entries[i].kind = "Tag mismatch")
                  <=> LocalOf(ref_xml, p) # LocalOf(test_xml, p) )

\* C10: a compared pair of elements whose tags differ gets exactly one entry,
\* a "Tag mismatch"; nothing of its subtree is visited or reported; and the
\* next pair of siblings under the same parent is still compared.
C10_TagMismatchStopsThePairOnly ==
    cmp_pc = "compared" =>
        \A p \in VisitedPos :
            (ElementPair(p) /\ NodeAt(ref_xml, p).tag # NodeAt(test_xml, p).tag) =>
                /\ Cardinality(EntriesAt(p)) = 1
                /\ \A i \in EntriesAt(p) : Entries[i].kind = "Tag mismatch"
                /\ EntriesBelow(p) = EntriesAt(p)
                /\ \A q \in VisitedPos : IsPrefix(p, q) => q = p
                /\ (p # <<>> /\ NextSibling(p) \in CommonPos)
                       => NextSibling(p) \in VisitedPos

\* a mismatching pair that has a differing subtree and a later sibling pair
C10_Witness ==
    /\ cmp_pc = "compared"
    /\ \E p \in VisitedPos :
          /\ p # <<>>
          /\ ElementPair(p)
          /\ NodeAt(ref_xml, p).tag # NodeAt(test_xml, p).tag
          /\ NodeAt(ref_xml, p).children # <<>>
          /\ NodeAt(ref_xml, p).children # NodeAt(test_xml, p).children
          /\ NextSibling(p) \in VisitedPos
          /\ Cardinality(EntriesAt(p)) = 1

\* the number of child pairs zip gives the pair at p
SharedChildren(p) ==
    LET na == Len(NodeAt(ref_xml, p).children)
        nb == Len(NodeAt(test_xml, p).children)
    IN  IF na < nb THEN na ELSE nb

\* the pair at p gets past the tests of the tag and of the ignored tags
ContentsCompared(p) ==
    /\ ElementPair(p)
    /\ NodeAt(ref_xml, p).tag = NodeAt(test_xml, p).tag
    /\ LocalOf(ref_xml, p) \notin IGNORED_TAGS

CountsDiffer(p) ==
    Len(NodeAt(ref_xml, p).children) # Len(NodeAt(test_xml, p).children)

\* C11: a compared pair of elements with different numbers of children gets
\* exactly one "Child count mismatch" entry; nothing is visited or reported
\* for a child beyond the shorter list or below it; and when compare_xml
\* returns, every pair of children within the shorter list has been compared.
C11_ChildCountMismatchKeepsSharedPrefix ==
    cmp_pc = "compared" =>
        \A p \in VisitedPos :
            (ContentsCompared(p) /\ CountsDiffer(p)) =>
                /\ Cardinality({ i \in EntriesAt(p) :
                                   Entries[i].kind = "Child count mismatch" }) = 1
                /\ \A q \in VisitedPos :
                      (IsPrefix(p, q) /\ q # p) => q[Len(p) + 1] <= SharedChildren(p)
                /\ \A i \in EntriesBelow(p) :
                      Entries[i].pos # p => Entries[i].pos[Len(p) + 1] <= SharedChildren(p)
                /\ diffs.ok =>
                      \A k \in 1..SharedChildren(p) : Append(p, k) \in VisitedPos

\* two child lists of different lengths whose shared first pair differs below
C11_Witness ==
    /\ cmp_pc = "compared" /\ diffs.ok
    /\ \E p \in VisitedPos :
          /\ ContentsCompared(p) /\ CountsDiffer(p)
          /\ SharedChildren(p) >= 1
          /\ \A k \in 1..SharedChildren(p) : Append(p, k) \in VisitedPos
          /\ \E i \in EntriesBelow(p) : Entries[i].pos # p

\* '/' and the local name of every node from the root of tree down to pos
RECURSIVE StructuralPath(_, _)
StructuralPath(tree, pos) ==
    <<"/">> \o strip_namespace(tree.tag)
        \o (IF pos = <<>> THEN <<>>
            ELSE StructuralPath(tree.children[Head(pos)], Tail(pos)))

\* C12: every entry, of all four kinds, carries the structural path of the
\* node it was detected at: '/' and the local names of the first tree from
\* the root down to and including that node.
C12_EntryCarriesPathOfItsNode ==
    cmp_pc = "compared" =>
        \A i \in DOMAIN Entries :
            Entries[i].at = StructuralPath(ref_xml, Entries[i].pos)

\* ---------------------------------------------------------------------------
\* Properties of clean_xml_string, read off the states of SpecClean
\* ---------------------------------------------------------------------------

WellFormed(t) == parse_xml(t).ok

NonAsciiAtoms == {LtLt} \cup { Latin1OfLtLt[i] : i \in DOMAIN Latin1OfLtLt }

Contains(t, c) == Find(t, c, 1) # 0

\* nothing stands between the first "?>" and the '<' that follows it
DeclarationTrimmed(t) ==
    LET declaration_end == FindDeclEnd(t, 1)
        content_start == Find(t, "<", declaration_end + 2)
    IN  declaration_end = 0 \/ content_start = 0 \/ content_start = declaration_end + 2

PlainOutput(t) ==
    /\ ~Contains(t, "\\")
    /\ ~Contains(t, "&")
    /\ \A i \in DOMAIN t : t[i] \notin NonAsciiAtoms
    /\ DeclarationTrimmed(t)

\* C3: clean_xml_string is total: it returns a string for every input, the
\* empty string for an input that is not a string, and never raises.
C3_CleanNeverRaises ==
    clean_pc # "input" => (once.ok /\ (~raw.isstr => once.val = <<>>))

\* C6 as stated: cleaning a well-formed output of clean_xml_string again
\* gives the same string, when the trimming of the declaration has nothing
\* left to remove.
C6_IdempotentOnWellFormedOutput ==
    (clean_pc = "recleaned" /\ WellFormed(once.val) /\ DeclarationTrimmed(once.val))
        => twice = Ret(once.val)

\* C6 amended: cleaning again gives the same string for every well-formed
\* output that has no backslash, no '&', only ASCII characters and no text
\* between its first "?>" and the '<' that follows.
C6_IdempotentOnPlainOutput ==
    (clean_pc = "recleaned" /\ WellFormed(once.val) /\ PlainOutput(once.val))
        => twice = Ret(once.val)

\* a repaired, well-formed, plain output with a quoted attribute value,
\* cleaned a second time
C6_Witness ==
    /\ clean_pc = "recleaned"
    /\ WellFormed(once.val) /\ PlainOutput(once.val)
    /\ raw.text # once.val
    /\ Contains(once.val, "\"")
    /\ twice = Ret(once.val)

\* C7 as stated: the returned string starts with '<' or is empty, and it is
\* empty only for an input that is not a string.
C7_StartsWithLtElseNotAString ==
    (clean_pc # "input" /\ once.ok) =>
        /\ once.val = <<>> \/ Head(once.val) = "<"
        /\ once.val = <<>> => ~raw.isstr

\* C7 amended: the returned string starts with '<' or has no '<' at all, and
\* it is empty for an input that is not a string.
C7_StartsWithLtOrHasNone ==
    (clean_pc # "input" /\ once.ok) =>
        /\ \/ once.val # <<>> /\ Head(once.val) = "<"
           \/ ~Contains(once.val, "<")
        /\ ~raw.isstr => once.val = <<>>

\* a string with text before its first '<', cleaned
C7_Witness ==
    /\ clean_pc = "cleaned" /\ once.ok
    /\ raw.isstr /\ raw.text # <<>> /\ Head(raw.text) # "<"
    /\ Contains(raw.text, "<")
    /\ once.val # <<>> /\ Head(once.val) = "<"

\* ---------------------------------------------------------------------------
\* Properties of process_comparison, read off the states of Spec
\* ---------------------------------------------------------------------------

RefId(k) == Strip(ref_data[k].id)

Matched(k) == RefId(k) \in DOMAIN test_data_map

\* the diff list compare_xml returns for the k-th reference record and its
\* test record; Unset when there is no pair of trees to compare
DiffsOf(k) ==
    IF ~Matched(k) THEN Unset
    ELSE LET ref_xml_str == clean_xml_string(ref_data[k].raw)
             test_xml_str == clean_xml_string(test_data_map[RefId(k)].content)
             ref_tree == parse_xml(ref_xml_str.val)
             test_tree == parse_xml(test_xml_str.val)
         IN  IF ~ref_xml_str.ok \/ ~test_xml_str.ok THEN Unset
             ELSE IF ~ref_tree.ok \/ ~test_tree.ok THEN Unset
             ELSE compare_xml(ref_tree.val, test_tree.val)

\* C1: the overview line of a reference record is "pass" exactly when the
\* record has a matching test record, both cleaned texts parse and compare_xml
\* returned the empty list for the two trees.
C1_PassIffNoDiffs ==
    \A k \in 1..Len(overview_results) :
        overview_results[k].kind = "pass"
            <=> (LET d == DiffsOf(k) IN d.ok /\ d.val.diffs = <<>>)

\* a finished batch with a record that passed and a record whose trees differ
C1_Witness ==
    /\ pc = "done"
    /\ \E k \in 1..Len(overview_results) :
          overview_results[k].kind = "pass" /\ ref_data[k].raw # test_data_map[RefId(k)].content
    /\ \E k \in 1..Len(overview_results) :
          overview_results[k].kind = "fail" /\ DiffsOf(k).ok /\ DiffsOf(k).val.diffs # <<>>

\* C2: whatever goes wrong inside one record, the loop goes on to the next
\* record and the report is written: no exception leaves process_comparison.
C2_NoRecordAbortsTheBatch == pc # "raised"

\* C13: for a matched pair nothing but parse_xml fails: clean_xml_string
\* returns for both raw texts, and compare_xml returns for every two trees
\* parse_xml gave, comments and processing instructions among their nodes
\* included.
C13_OnlyParsingFails ==
    pc # "load" =>
        \A k \in 1..Len(ref_data) :
            Matched(k) =>
                LET ref_xml_str == clean_xml_string(ref_data[k].raw)
                    test_xml_str == clean_xml_string(test_data_map[RefId(k)].content)
                    ref_tree == parse_xml(ref_xml_str.val)
                    test_tree == parse_xml(test_xml_str.val)
                IN  /\ ref_xml_str.ok /\ test_xml_str.ok
                    /\ (ref_tree.ok /\ test_tree.ok)
                           => compare_xml(ref_tree.val, test_tree.val).ok

OverviewKinds == {"pass", "fail", "fail (XML Error)", "fail (No Match)"}

IsBlockStart(line) == line.kind \in {"header", "warning"}

\* the lines of the report after the separator
Details == SubSeq(final_results, Len(ref_data) + 4, Len(final_results))

BlockStarts == { i \in DOMAIN Details : IsBlockStart(Details[i]) }

\* where the k-th block starts and ends
BlockStart(k) ==
    CHOOSE i \in BlockStarts : Cardinality({ j \in BlockStarts : j < i }) = k - 1

BlockEnd(k) ==
    IF k < Cardinality(BlockStarts) THEN BlockStart(k + 1) - 1 ELSE Len(Details)

\* the overview kind a detail block stands for
BlockVerdict(k) ==
    LET first == Details[BlockStart(k)]
        second == Details[BlockStart(k) + 1]
    IN  IF first.kind = "warning" THEN "fail (No Match)"
        ELSE IF BlockEnd(k) = BlockStart(k) THEN "none"
        ELSE CASE second.kind = "match ok"    -> "pass"
               [] second.kind = "differences" -> "fail"
               [] second.kind = "xml error"   -> "fail (XML Error)"
               [] OTHER                       -> "none"

\* C8: the report has one overview line per reference record, in input order,
\* before the first blank line; after it one detail block per reference
\* record in the same order, the k-th block about the record of the k-th
\* overview line.
C8_ReportOrder ==
    pc = "done" =>
        LET n == Len(ref_data)
        IN  /\ Len(final_results) >= n + 3
            /\ final_results[1].kind = "start"
            /\ final_results[2].kind = "overview title"
            /\ \A k \in 1..n :
                  /\ final_results[2 + k].kind \in OverviewKinds
                  /\ final_results[2 + k].id = RefId(k)
            /\ final_results[n + 3] = Blank
            /\ \A i \in DOMAIN Details : Details[i].kind \notin OverviewKinds
            /\ Details # <<>> => IsBlockStart(Details[1])
            /\ Cardinality(BlockStarts) = n
            /\ \A k \in 1..n :
                  /\ Details[BlockStart(k)].id = RefId(k)
                  /\ BlockVerdict(k) = final_results[2 + k].kind

\* a report of two records with different ids and different verdicts, one of
\* them with a list of differences
C8_Witness ==
    /\ pc = "done"
    /\ Len(ref_data) = 2
    /\ RefId(1) # RefId(2)
    /\ final_results[3].kind # final_results[4].kind
    /\ \E i \in DOMAIN Details : Details[i].kind = "diff"
    /\ \E i \in DOMAIN Details : Details[i].kind = "warning"

====
